---- MODULE Spec2Model ----
(***************************************************************************)
(* Turbojet/turbofan cycle evaluator: compute_engine_performance of        *)
(* src/lib.py, called by a script like src/main.py.                        *)
(*                                                                         *)
(* Numbers.  The program computes in binary floating point (Python float   *)
(* and numpy.float64).  The model computes in decimal floating point with  *)
(* an eight digit mantissa: a value is m * 10^e with m = 0 or              *)
(* 10^7 <= |m| < 10^8, every operation rounds its exact result to that     *)
(* format.  Besides finite numbers a value can be nan or +-inf (numpy      *)
(* results), a complex number (Python's result of a negative base raised   *)
(* to a fractional power; only the fact that it is complex is kept) or the *)
(* mark of a raised exception.                                             *)
(***************************************************************************)
EXTENDS Integers, Sequences, FiniteSets, TLC

----------------------------------------------------------------------------
(* Floating point values *)

Num(m, e) == [k |-> "num", m |-> m, e |-> e]
Zero == Num(0, 0)
NaN == [k |-> "nan", m |-> 0, e |-> 0]
Inf(s) == [k |-> "inf", m |-> s, e |-> 0]
Cplx == [k |-> "cplx", m |-> 0, e |-> 0]
Exc == [k |-> "exc", m |-> 0, e |-> 0]

Abs(n) == IF n < 0 THEN -n ELSE n
Sgn(n) == IF n < 0 THEN -1 ELSE IF n = 0 THEN 0 ELSE 1

Pow10 == <<10, 100, 1000, 10000, 100000, 1000000, 10000000, 100000000, 1000000000>>
P10(n) == IF n = 0 THEN 1 ELSE Pow10[n]

Digits(a) ==
  IF a < 10000
    THEN (IF a < 10 THEN 1 ELSE IF a < 100 THEN 2 ELSE IF a < 1000 THEN 3 ELSE 4)
    ELSE IF a < 100000000
      THEN (IF a < 100000 THEN 5 ELSE IF a < 1000000 THEN 6
            ELSE IF a < 10000000 THEN 7 ELSE 8)
      ELSE (IF a < 1000000000 THEN 9 ELSE 10)

(* the float nearest to n * 10^e, for an integer |n| < 2^31 - 50 *)
NormRounded(s, q, e) ==
  IF q = 100000000 THEN Num(s * 10000000, e + 1) ELSE Num(s * q, e)

NormDigits(s, a, d, e) ==
  IF d <= 8
    THEN Num(s * a * P10(8 - d), e - (8 - d))
    ELSE NormRounded(s, (a + P10(d - 8) \div 2) \div P10(d - 8), e + (d - 8))

Norm(n, e) ==
  IF n = 0 THEN Zero ELSE NormDigits(Sgn(n), Abs(n), Digits(Abs(n)), e)

IsNum(x) == x.k = "num"
IsZero(x) == x.k = "num" /\ x.m = 0
IsFinite(x) == x.k = "num"
Neg(x) == IF x.k \in {"num", "inf"} THEN [x EXCEPT !.m = -x.m] ELSE x
FAbs(x) == IF x.k \in {"num", "inf"} THEN [x EXCEPT !.m = Abs(x.m)] ELSE x

(* what an operation on a or b yields when one of them is no real number *)
Special(a, b) ==
  IF a.k = "exc" \/ b.k = "exc" THEN Exc
  ELSE IF a.k = "cplx" \/ b.k = "cplx" THEN Cplx
  ELSE NaN

(* exact product of two eight digit mantissas, rounded to eight digits *)
(* Q the leading digits of the product, fr the next four *)
MulRound(Q, fr, e) ==
  IF Q >= 10000000
    THEN Norm(Q + (IF fr >= 5000 THEN 1 ELSE 0), e + 8)
    ELSE Norm(Q * 10 + fr \div 1000 + (IF fr % 1000 >= 500 THEN 1 ELSE 0), e + 7)

MulMiddle(hi, t, e) == MulRound(hi + t \div 10000, t % 10000, e)

(* a = a1 * 10^4 + a0, b = b1 * 10^4 + b0 *)
MulLimbs(a1, a0, b1, b0, e) ==
  MulMiddle(a1 * b1, a1 * b0 + a0 * b1 + (a0 * b0) \div 10000, e)

MulMant(a, b, e) == MulLimbs(a \div 10000, a % 10000, b \div 10000, b % 10000, e)

WithSign(positive, r) == IF positive THEN r ELSE Neg(r)

Mul(x, y) ==
  IF x.k = "num" /\ y.k = "num"
    THEN IF x.m = 0 \/ y.m = 0 THEN Zero
         ELSE WithSign(Sgn(x.m) = Sgn(y.m), MulMant(Abs(x.m), Abs(y.m), x.e + y.e))
  ELSE IF x.k \in {"num", "inf"} /\ y.k \in {"num", "inf"}
    THEN IF x.m = 0 \/ y.m = 0 THEN NaN ELSE Inf(Sgn(x.m) * Sgn(y.m))
  ELSE Special(x, y)

(* n more digits of long division by b: qr is <<the digits so far, the     *)
(* remainder>>                                                             *)
RECURSIVE LongDiv(_, _, _)
LongDiv(qr, b, n) ==
  IF n = 0 THEN qr
  ELSE IF qr[2] = 0 THEN <<qr[1] * P10(n), 0>>
  ELSE LongDiv(<<qr[1] * 10 + (qr[2] * 10) \div b, (qr[2] * 10) % b>>, b, n - 1)

(* the quotient digits qr[1] rounded by the remainder qr[2] *)
DivRound(qr, b, e) == Norm(qr[1] + (IF 2 * qr[2] >= b THEN 1 ELSE 0), e)

DivMant(a, b, e) ==
  IF a < b
    THEN DivRound(LongDiv(<<0, a>>, b, 8), b, e - 8)
    ELSE DivRound(LongDiv(<<a \div b, a % b>>, b, 7), b, e - 7)

(* x / y where a zero divisor gives zd (an exception for Python floats,    *)
(* inf or nan for numpy)                                                   *)
DivWith(x, y, raises) ==
  IF x.k = "exc" \/ y.k = "exc" THEN Exc
  ELSE IF x.k = "num" /\ y.k = "num"
    THEN IF y.m = 0
           THEN (IF raises THEN Exc ELSE IF x.m = 0 THEN NaN ELSE Inf(Sgn(x.m)))
         ELSE IF x.m = 0 THEN Zero
         ELSE WithSign(Sgn(x.m) = Sgn(y.m), DivMant(Abs(x.m), Abs(y.m), x.e - y.e))
  ELSE IF x.k = "inf" /\ y.k = "num"
    THEN Inf(IF y.m < 0 THEN -x.m ELSE x.m)
  ELSE IF x.k = "num" /\ y.k = "inf" THEN Zero
  ELSE Special(x, y)

DivPy(x, y) == DivWith(x, y, TRUE)
DivNp(x, y) == DivWith(x, y, FALSE)

(* x + y for finite x, y with x.e >= y.e: one guard digit is kept *)
AddShifted(x, y, p) ==
  Norm(x.m * 10 + Sgn(y.m) * ((Abs(y.m) + p \div 2) \div p), x.e - 1)

AddAligned(x, y) ==
  IF x.e - y.e >= 10 THEN x
  ELSE IF x.e = y.e THEN Norm(x.m + y.m, y.e)
  ELSE AddShifted(x, y, P10(x.e - y.e - 1))

Add(x, y) ==
  IF x.k = "num" /\ y.k = "num"
    THEN IF x.m = 0 THEN y
         ELSE IF y.m = 0 THEN x
         ELSE IF x.e >= y.e THEN AddAligned(x, y) ELSE AddAligned(y, x)
  ELSE IF x.k = "inf" /\ y.k = "inf" THEN (IF x.m = y.m THEN x ELSE NaN)
  ELSE IF x.k = "inf" /\ y.k = "num" THEN x
  ELSE IF x.k = "num" /\ y.k = "inf" THEN y
  ELSE Special(x, y)

Sub(x, y) == Add(x, Neg(y))

(* the sign of x - y for finite x, y *)
Cmp(x, y) ==
  IF Sgn(x.m) # Sgn(y.m) THEN (IF x.m < y.m THEN -1 ELSE 1)
  ELSE IF x.m = 0 THEN 0
  ELSE IF x.e # y.e THEN (IF (x.e < y.e) = (x.m > 0) THEN -1 ELSE 1)
  ELSE IF x.m < y.m THEN -1 ELSE IF x.m = y.m THEN 0 ELSE 1

(* x < y on real values: false when either is nan *)
Lt(x, y) ==
  IF x.k = "num" /\ y.k = "num" THEN Cmp(x, y) < 0
  ELSE IF x.k = "inf" /\ y.k = "num" THEN x.m < 0
  ELSE IF x.k = "num" /\ y.k = "inf" THEN y.m > 0
  ELSE IF x.k = "inf" /\ y.k = "inf" THEN x.m < y.m
  ELSE FALSE

One == Num(10000000, -7)
Two == Num(20000000, -7)

(* floor of the square root of 10^7 <= n < 10^9, by bisection: lo^2 <= n < hi^2 *)
RECURSIVE ISqrt(_, _, _)
ISqrt(n, lo, hi) ==
  IF hi - lo <= 1 THEN lo
  ELSE IF ((lo + hi) \div 2) * ((lo + hi) \div 2) <= n
    THEN ISqrt(n, (lo + hi) \div 2, hi)
    ELSE ISqrt(n, lo, (lo + hi) \div 2)

(* one Newton step towards the d-th root of t from y, given y^(d-1) *)
NewtonStep(t, y, ypow, d) ==
  DivPy(Add(Mul(Num((d - 1) * 10000000, -7), y), DivPy(t, ypow)), Num(d * 10000000, -7))

(* square root of a finite x > 0 *)
SqrtGuess(x) ==
  IF x.e % 2 = 1
    THEN Norm(ISqrt(x.m * 10, 3162, 31623), (x.e - 1) \div 2)
    ELSE Norm(ISqrt(x.m, 3162, 31623), x.e \div 2)

Newton2(x, y) == IF IsNum(y) THEN NewtonStep(x, y, y, 2) ELSE y

SqrtPos(x) == Newton2(x, Newton2(x, SqrtGuess(x)))

Square(x) == Mul(x, x)

(* x^n for an integer n >= 1, by repeated squaring *)
RECURSIVE IntPow(_, _)
IntPow(x, n) ==
  IF n = 1 THEN x
  ELSE IF n % 2 = 0 THEN Square(IntPow(x, n \div 2))
  ELSE Mul(Square(IntPow(x, n \div 2)), x)

Pow7From(y, y2) == Mul(Mul(Mul(y2, y2), y2), y)

Pow7(y) == Pow7From(y, Mul(y, y))

(* the seventh powers of the three digit numbers *)
SeventhPowers == [g \in 100..1000 |-> Pow7(Norm(g, 0))]

(* the three digit g with g^7 <= u < (g + 1)^7, for 10^14 <= u < 10^21 *)
Guess7(u) ==
  CHOOSE g \in 100..999 :
    Cmp(SeventhPowers[g], u) <= 0 /\ Cmp(u, SeventhPowers[g + 1]) < 0

Newton7From(t, y, y3) == NewtonStep(t, y, Mul(y3, y3), 7)

Newton7(t, y) == IF IsNum(y) THEN Newton7From(t, y, Mul(Mul(y, y), y)) ELSE y

(* seventh root of a finite t > 0: three Newton steps from the three digit *)
(* g * 10^e with (g * 10^e)^7 <= t < ((g + 1) * 10^e)^7                    *)
Root7From(t, e) ==
  Newton7(t, Newton7(t, Newton7(t, Norm(Guess7([t EXCEPT !.e = @ - 7 * e]), e))))

Root7Pos(t) == Root7From(t, (t.e + 7) \div 7 - 2)

RootPos(x, d) ==
  IF d = 1 \/ ~IsNum(x) THEN x ELSE IF d = 2 THEN SqrtPos(x) ELSE Root7Pos(x)

(* Python's x ** (n/d) on floats, for the exponents n/d the program uses:  *)
(* a negative base with a fractional exponent gives a complex number, zero *)
(* to a negative power raises ZeroDivisionError                            *)
PowAbs(n, p) == IF n < 0 THEN DivPy(One, p) ELSE p

PowPy(x, ex) ==
  IF x.k # "num" THEN Special(x, x)
  ELSE IF x.m = 0 THEN (IF ex[1] > 0 THEN Zero ELSE Exc)
  ELSE IF x.m < 0 /\ ex[2] # 1 THEN Cplx
  ELSE WithSign(x.m > 0 \/ Abs(ex[1]) % 2 = 0,
                PowAbs(ex[1], RootPos(IntPow(FAbs(x), Abs(ex[1])), ex[2])))

(* numpy.sqrt: nan for a negative real, complex for a complex argument *)
SqrtNp(x) ==
  IF x.k = "num"
    THEN (IF x.m = 0 THEN Zero ELSE IF x.m < 0 THEN NaN ELSE SqrtPos(x))
  ELSE IF x.k = "inf" THEN (IF x.m > 0 THEN x ELSE NaN)
  ELSE Special(x, x)

----------------------------------------------------------------------------
(* The program *)

(* n * 10^e as a float: the decimal literals of the source *)
Dec(n, e) == Norm(n, e)

RECURSIVE GCD(_, _)
GCD(a, b) == IF b = 0 THEN a ELSE GCD(b, a % b)

(* the exponent a / b, a quotient of two finite floats, as a reduced       *)
(* fraction <<n, d>> with d > 0                                            *)
Reduced(n, d, c) == <<(Sgn(d) * n) \div c, Abs(d) \div c>>

Fraction(n, d) == Reduced(n, d, GCD(Abs(n), Abs(d)))

Ratio(a, b) ==
  IF a.e < b.e
    THEN Fraction(a.m, b.m * P10(b.e - a.e))
    ELSE Fraction(a.m * P10(a.e - b.e), b.m)

(* the module level constants *)
EngineConstants ==
  [gamma |-> Dec(14, -1), R |-> Dec(287, 0), PCI |-> Dec(48, 6), cp |-> Dec(1004, 0)]

(* the three exponents the loop body computes from gamma *)
ExpTemp(g) == Ratio(Sub(g.gamma, One), g.gamma)
ExpPres(g) == Ratio(g.gamma, Sub(g.gamma, One))
ExpFlow(g) == Ratio(Neg(Add(g.gamma, One)), Mul(Two, Sub(g.gamma, One)))

(* M8 = 1; M8_ad = ...; if M8_ad < 1: M8 = M8_ad -- the value of M8 after  *)
(* the branch, prev being its value before these statements.  Comparing a  *)
(* complex M8_ad raises TypeError.                                         *)
NozzleMach_carried(prev, M_ad) ==
  IF M_ad.k \in {"exc", "cplx"} THEN Exc
  ELSE IF Lt(M_ad, One) THEN M_ad ELSE prev

NozzleMach(prev, M_ad) ==
  IF M_ad.k \in {"exc", "cplx"} THEN Exc
  ELSE IF Lt(M_ad, One) THEN M_ad ELSE One

(* np.sqrt((2 / (gamma - 1)) * ((Pt / Ps0) ** ((gamma - 1) / gamma)) - 1) *)
AdiabaticMach(g, Pt, Ps0) ==
  SqrtNp(Sub(Mul(DivPy(Two, Sub(g.gamma, One)), PowPy(DivPy(Pt, Ps0), ExpTemp(g))), One))

(* Tt2 = Ts0 * (1 + (gamma - 1) / 2 * M0 ** 2) *)
InletTt2_linear(g, Ts0, M0) ==
  Mul(Ts0, Add(One, Mul(DivPy(Sub(g.gamma, One), Two), M0)))

InletTt2(g, Ts0, M0) ==
  Mul(Ts0, Add(One, Mul(DivPy(Sub(g.gamma, One), Two), IntPow(M0, 2))))

(* Pt2 = Ps0 * (1 + (gamma - 1) / 2 * M0 ** 2) ** (gamma / (gamma - 1)) *)
InletPt2(g, Ps0, M0) ==
  Mul(Ps0, PowPy(Add(One, Mul(DivPy(Sub(g.gamma, One), Two), IntPow(M0, 2))), ExpPres(g)))

(* dm_f = (dm_fp * cp * (Tt4 - Tt3)) / (PCI - Tt4) *)
FuelFlow_swapped(g, dm_fp, Tt4, Tt3) ==
  DivPy(Mul(Mul(dm_fp, g.cp), Sub(Tt3, Tt4)), Sub(g.PCI, Tt4))

FuelFlow(g, dm_fp, Tt4, Tt3) ==
  DivPy(Mul(Mul(dm_fp, g.cp), Sub(Tt4, Tt3)), Sub(g.PCI, Tt4))

(* nprop = Wprop / Wcin; nth = Wcin / Wth; nglob = Wprop / Wth *)
Efficiencies_wrongdenominator(Wprop, Wcin, Wth) ==
  [nprop |-> DivNp(Wprop, Wcin), nth |-> DivNp(Wcin, Wth), nglob |-> DivNp(Wprop, Wcin)]

Efficiencies(Wprop, Wcin, Wth) ==
  [nprop |-> DivNp(Wprop, Wcin), nth |-> DivNp(Wcin, Wth), nglob |-> DivNp(Wprop, Wth)]

(* Dr = np.sqrt(gamma / R) * M * (1 + ((gamma - 1) / 2) * M ** 2)          *)
(*        ** (-(gamma + 1) / (2 * (gamma - 1)))                            *)
FlowFunction(g, M) ==
  Mul(Mul(SqrtNp(DivPy(g.gamma, g.R)), M),
      PowPy(Add(One, Mul(DivPy(Sub(g.gamma, One), Two), IntPow(M, 2))), ExpFlow(g)))

(* The statements of the loop body, in groups.  Each takes the locals s    *)
(* assigned so far and returns them with the locals it assigns.            *)

(* lines 63-64 *)
Inlet(g, inp, pi_hpc) ==
  [pi_hpc |-> pi_hpc,
   Tt2 |-> InletTt2(g, inp.Ts0, inp.M0),
   Pt2 |-> InletPt2(g, inp.Ps0, inp.M0)]

(* lines 69-71 *)
FanExit(g, inp, s) ==
  s @@ [Pt13 |-> Mul(s.Pt2, inp.pi_fan),
        Tt13 |-> Mul(s.Tt2, PowPy(inp.pi_fan, ExpTemp(g))),
        dm_fp |-> DivPy(inp.dm, Add(One, inp.beta))]

(* line 72 *)
SecondaryFlow(inp, s) ==
  s @@ [dm_fs |-> Sub(inp.dm, s.dm_fp)]

(* lines 77-78 *)
HpcExit(g, s) ==
  s @@ [Pt3 |-> Mul(s.Pt13, s.pi_hpc),
        Tt3 |-> Mul(s.Tt13, PowPy(s.pi_hpc, ExpTemp(g)))]

(* lines 83-85 *)
Combustor(g, inp, s) ==
  s @@ [Pt4 |-> s.Pt3, dm_f |-> FuelFlow(g, s.dm_fp, inp.Tt4, s.Tt3)]

(* line 86 *)
FuelAirRatio(s) ==
  s @@ [f |-> DivPy(s.dm_f, s.dm_fp)]

(* line 91 *)
HptWork(inp, s) ==
  s @@ [Tt42 |-> Sub(inp.Tt4, DivPy(Sub(s.Tt3, s.Tt13), Add(One, s.f)))]

(* line 92 *)
HptRatio(inp, s) ==
  s @@ [tau_hpt |-> DivPy(s.Tt42, inp.Tt4)]

(* line 93 *)
HptExit(g, s) ==
  s @@ [Pt42 |-> Mul(s.Pt4, PowPy(s.tau_hpt, ExpPres(g)))]

(* line 98 *)
LptWork(inp, s) ==
  s @@ [Tt5 |-> Sub(s.Tt42, DivPy(Mul(Add(One, inp.beta), Sub(s.Tt13, s.Tt2)),
                                  Add(One, s.f)))]

(* line 99 *)
LptRatio(s) ==
  s @@ [tau_lpt |-> DivPy(s.Tt5, s.Tt42)]

(* line 100 *)
LptExit(g, s) ==
  s @@ [Pt5 |-> Mul(s.Pt42, PowPy(s.tau_lpt, ExpPres(g)))]

(* lines 105-106 and 116-117 *)
NozzleReservoirs(s) ==
  s @@ [Tt8 |-> s.Tt5, Pt8 |-> s.Pt5, Tt18 |-> s.Tt13, Pt18 |-> s.Pt13]

(* lines 108 and 119, and the speeds of sound np.sqrt(gamma * R * Tt8)     *)
(* (a8) and np.sqrt(gamma * R * Tt18) (a18) of lines 111 and 122           *)
NozzleAdiabatic(g, inp, s) ==
  s @@ [M8_ad |-> AdiabaticMach(g, s.Pt8, inp.Ps0),
        M18_ad |-> AdiabaticMach(g, s.Pt18, inp.Ps0),
        a8 |-> SqrtNp(Mul(Mul(g.gamma, g.R), s.Tt8)),
        a18 |-> SqrtNp(Mul(Mul(g.gamma, g.R), s.Tt18))]

(* line 127 *)
FlightSpeed(g, inp, s) ==
  s @@ [V0 |-> Mul(inp.M0, SqrtNp(Mul(Mul(g.gamma, g.R), inp.Ts0)))]

(* lines 148-149 *)
FlowFunctions(g, inp, s) ==
  s @@ [Dr1 |-> FlowFunction(g, inp.M1), Dr2 |-> FlowFunction(g, inp.M2)]

(* lines 150-153 *)
Areas(inp, s) ==
  s @@ [A1 |-> DivNp(Mul(inp.dm, SqrtNp(s.Tt2)), Mul(s.Pt2, s.Dr1)),
        A2 |-> DivNp(Mul(inp.dm, SqrtNp(s.Tt2)), Mul(s.Pt2, s.Dr2)),
        A8 |-> DivNp(Mul(Mul(Add(One, s.f), s.dm_fp), SqrtNp(s.Tt8)), s.Pt8),
        A18 |-> DivNp(Mul(s.dm_fs, SqrtNp(s.Tt18)), s.Pt18)]

(* lines 63-86: the statements up to the fuel-air ratio f *)
FuelStations(g, inp, pi_hpc) ==
  FuelAirRatio(Combustor(g, inp, HpcExit(g, SecondaryFlow(inp,
    FanExit(g, inp, Inlet(g, inp, pi_hpc))))))

(* The statements of the loop body whose values do not depend on M8 and   *)
(* M18: the stations up to the two nozzles' reservoirs, the adiabatic Mach *)
(* numbers, V0 and the areas.                                              *)
Stations(g, inp, pi_hpc) ==
  Areas(inp, FlowFunctions(g, inp, FlightSpeed(g, inp, NozzleAdiabatic(g, inp,
    NozzleReservoirs(LptExit(g, LptRatio(LptWork(inp, HptExit(g, HptRatio(inp,
      HptWork(inp, FuelStations(g, inp, pi_hpc))))))))))))

(* lines 107-110 and 118-121; M8 and M18 are the values the two locals had *)
(* before the pass                                                         *)
NozzleMachs(s, M8, M18) ==
  s @@ [M8 |-> NozzleMach(M8, s.M8_ad), M18 |-> NozzleMach(M18, s.M18_ad)]

(* lines 111 and 122 *)
NozzleSpeeds(s) ==
  s @@ [V8 |-> Mul(s.M8, s.a8), V18 |-> Mul(s.M18, s.a18)]

(* lines 128-129 *)
Thrusts(s) ==
  s @@ [T_fp |-> Mul(Mul(Add(One, s.f), s.dm_fp), s.V8), T_fs |-> Mul(s.dm_fs, s.V18)]

(* line 130 *)
NetThrust(inp, s) ==
  s @@ [T |-> Sub(Add(s.T_fp, s.T_fs), Mul(inp.dm, s.V0))]

(* line 131 *)
SpecificThrust(inp, s) ==
  s @@ [ST |-> DivNp(s.T, inp.dm)]

(* lines 132 and 137-139 *)
Powers(g, inp, s) ==
  s @@ [TSFC |-> DivNp(s.dm_f, s.ST),
        Wprop |-> Mul(s.T, s.V0),
        Wcin |-> Sub(Add(DivNp(Mul(Mul(Add(One, s.f), s.dm_fp), IntPow(s.V8, 2)), Two),
                         DivNp(Mul(s.dm_fs, IntPow(s.V18, 2)), Two)),
                     DivNp(Mul(inp.dm, IntPow(s.V0, 2)), Two)),
        Wth |-> Mul(s.dm_f, g.PCI)]

(* lines 141-143 *)
EfficiencyValues(s) == s @@ Efficiencies(s.Wprop, s.Wcin, s.Wth)

(* One pass of the loop body, lines 63-153, for the ratio pi_hpc: the      *)
(* locals it leaves.  s is Stations(g, inp, pi_hpc); M8 and M18 are the     *)
(* values these two locals had before the pass.                            *)
LoopBody(g, inp, s, M8, M18) ==
  EfficiencyValues(Powers(g, inp, SpecificThrust(inp, NetThrust(inp,
    Thrusts(NozzleSpeeds(NozzleMachs(s, M8, M18)))))))

(* results = {"T_list": [], ...}: the fifteen result lists *)
ResultKeys ==
  {"T_list", "T_fp_list", "T_fs_list", "ST_list", "TSFC_list", "Wprop_list",
   "Wcin_list", "Wth_list", "nprop_list", "nth_list", "nglob_list",
   "A1_list", "A2_list", "A8_list", "A18_list"}

EmptyResults == [key \in ResultKeys |-> << >>]

(* results["T_list"].append(T) ... results["A18_list"].append(A18) *)
SaveResults_typo(res, p) ==
  [T_list |-> Append(res.T_list, p.T),
   T_fp_list |-> Append(Append(res.T_fp_list, p.T_fp), p.T_fs),
   T_fs_list |-> res.T_fs_list,
   ST_list |-> Append(res.ST_list, p.ST),
   TSFC_list |-> Append(res.TSFC_list, p.TSFC),
   Wprop_list |-> Append(res.Wprop_list, p.Wprop),
   Wcin_list |-> Append(res.Wcin_list, p.Wcin),
   Wth_list |-> Append(res.Wth_list, p.Wth),
   nprop_list |-> Append(res.nprop_list, p.nprop),
   nth_list |-> Append(res.nth_list, p.nth),
   nglob_list |-> Append(res.nglob_list, p.nglob),
   A1_list |-> Append(res.A1_list, p.A1),
   A2_list |-> Append(res.A2_list, p.A2),
   A8_list |-> Append(res.A8_list, p.A8),
   A18_list |-> Append(res.A18_list, p.A18)]

SaveResults(res, p) ==
  [T_list |-> Append(res.T_list, p.T),
   T_fp_list |-> Append(res.T_fp_list, p.T_fp),
   T_fs_list |-> Append(res.T_fs_list, p.T_fs),
   ST_list |-> Append(res.ST_list, p.ST),
   TSFC_list |-> Append(res.TSFC_list, p.TSFC),
   Wprop_list |-> Append(res.Wprop_list, p.Wprop),
   Wcin_list |-> Append(res.Wcin_list, p.Wcin),
   Wth_list |-> Append(res.Wth_list, p.Wth),
   nprop_list |-> Append(res.nprop_list, p.nprop),
   nth_list |-> Append(res.nth_list, p.nth),
   nglob_list |-> Append(res.nglob_list, p.nglob),
   A1_list |-> Append(res.A1_list, p.A1),
   A2_list |-> Append(res.A2_list, p.A2),
   A8_list |-> Append(res.A8_list, p.A8),
   A18_list |-> Append(res.A18_list, p.A18)]

(* results = {...}: the dictionary a call creates, as a new object of the  *)
(* heap h                                                                  *)
NewResults_shared(h) ==
  IF DOMAIN h = {}
    THEN [id |-> 1, heap |-> (1 :> EmptyResults)]
    ELSE [id |-> 1, heap |-> h]

NewResults(h) ==
  [id |-> Cardinality(DOMAIN h) + 1,
   heap |-> h @@ ((Cardinality(DOMAIN h) + 1) :> EmptyResults)]

(* a statement of the pass raised: the mark reaches some local *)
Raised(p) == \E n \in DOMAIN p : p[n].k = "exc"

----------------------------------------------------------------------------
(* Bounds and inputs *)

MaxLen == 2
MaxCalls == 2

(* the script's engine parameters: those of main.py, with variations of    *)
(* the bypass ratio and of the combustor exit temperature                  *)
BypassRatios == {Dec(5, 0), Dec(20, 0)}
CombustorTemps == {Dec(400, 0), Dec(600, 0), Dec(1300, 0)}
HpcRatios == {Dec(1, 0), Dec(10, 0)}

MainInput ==
  [dm |-> Dec(210, 0), beta |-> Dec(5, 0), pi_fan |-> Dec(15, -1), Tt4 |-> Dec(1300, 0),
   M0 |-> Dec(85, -2), Ts0 |-> Dec(28065, -2), Ps0 |-> Dec(89876, 0),
   M1 |-> Dec(8, -1), M2 |-> Dec(5, -1)]

Inputs ==
  {[MainInput EXCEPT !.beta = b, !.Tt4 = t4] : b \in BypassRatios, t4 \in CombustorTemps}

RatioLists == UNION {[1..n -> HpcRatios] : n \in 0..MaxLen}

(* Stations for the inputs and ratios of the model, each evaluated once *)
StationTable ==
  {[inp |-> i, pi_hpc |-> r, s |-> Stations(EngineConstants, i, r)] :
     i \in Inputs, r \in HpcRatios}

StationsAt(g, i, r) ==
  IF g = EngineConstants /\ i \in Inputs /\ r \in HpcRatios
    THEN (CHOOSE t \in StationTable : t.inp = i /\ t.pi_hpc = r).s
    ELSE Stations(g, i, r)

----------------------------------------------------------------------------
(* State *)

VARIABLES
  globals,      \* the module's bindings of gamma, R, PCI, cp
  params,           \* the script's engine and flight parameters
  pi_hpc_list,  \* the list the script passes to the running call
  calls,        \* the script's finished calls: the list passed, the dictionary returned
  heap,         \* the dictionaries created so far, by identity
  results,      \* the running call's local results: an identity, 0 outside a call
  it,           \* how many elements the for loop has taken from pi_hpc_list
  loc,          \* the running call's locals assigned by the loop body
  pc            \* "idle", "loop" (in a call) or "raised" (the call raised)

vars == <<globals, params, pi_hpc_list, calls, heap, results, it, loc, pc>>

LocalNames ==
  {"pi_hpc", "Tt2", "Pt2", "Pt13", "Tt13", "dm_fp", "dm_fs", "Pt3", "Tt3", "Pt4", "dm_f",
   "f", "Tt42", "tau_hpt", "Pt42", "Tt5", "tau_lpt", "Pt5", "Dr1", "Dr2",
   "Tt8", "Pt8", "M8_ad", "M8", "V8", "Tt18", "Pt18",
   "M18_ad", "M18", "V18", "a8", "a18", "V0", "T_fp", "T_fs", "T", "ST", "TSFC",
   "Wprop", "Wcin", "Wth", "nprop", "nth", "nglob", "A1", "A2", "A8", "A18"}

Unbound == [k |-> "unbound", m |-> 0, e |-> 0]
NoLocals == [n \in LocalNames |-> Unbound]

Init ==
  /\ globals = EngineConstants
  /\ params \in Inputs
  /\ pi_hpc_list = << >>
  /\ calls = << >>
  /\ heap = << >>
  /\ results = 0
  /\ it = 0
  /\ loc = NoLocals
  /\ pc = "idle"

(* the script calls compute_engine_performance: lines 41-57 run *)
Call ==
  /\ pc = "idle"
  /\ Len(calls) < MaxCalls
  /\ \E l \in RatioLists : pi_hpc_list' = l
  /\ heap' = NewResults(heap).heap
  /\ results' = NewResults(heap).id
  /\ it' = 0
  /\ loc' = NoLocals
  /\ pc' = "loop"
  /\ UNCHANGED <<globals, params, calls>>

(* one pass of the for loop, lines 59-172, for the next ratio of the list: *)
(* it appends one value to each list, or an exception leaves the call      *)
Step ==
  /\ pc = "loop"
  /\ it < Len(pi_hpc_list)
  /\ \E s \in {StationsAt(globals, params, pi_hpc_list[it + 1])} :
     \E p \in {LoopBody(globals, params, s, loc.M8, loc.M18)} :
        IF Raised(p)
          THEN /\ pc' = "raised"
               /\ results' = 0
               /\ loc' = NoLocals
               /\ UNCHANGED <<heap, it>>
          ELSE /\ heap' = [heap EXCEPT ![results] = SaveResults(@, p)]
               /\ loc' = p
               /\ it' = it + 1
               /\ UNCHANGED <<pc, results>>
  /\ UNCHANGED <<globals, params, pi_hpc_list, calls>>

(* the loop is exhausted: return results, line 174 *)
Return ==
  /\ pc = "loop"
  /\ it = Len(pi_hpc_list)
  /\ calls' = Append(calls, [list |-> pi_hpc_list, ret |-> results])
  /\ results' = 0
  /\ loc' = NoLocals
  /\ pc' = "idle"
  /\ UNCHANGED <<globals, params, pi_hpc_list, heap, it>>

Next == Call \/ Step \/ Return

Spec == Init /\ [][Next]_vars

----------------------------------------------------------------------------
(* A second script, for the fuel-air ratio alone: it evaluates the loop    *)
(* body up to f (lines 63-86) for one ratio, then again and again with a   *)
(* higher combustor exit temperature and everything else unchanged.        *)

FuelTemps ==
  {Dec(400, 0), Dec(600, 0), Dec(1300, 0), Dec(1301, 0), Dec(3000, 0), Dec(1, 6), Dec(4, 7),
   Dec(48, 6), Dec(5, 7)}
LowestFuelTemp == Dec(400, 0)

FuelInputs ==
  {[MainInput EXCEPT !.beta = b, !.pi_fan = pf, !.M0 = m0, !.Tt4 = LowestFuelTemp] :
     b \in BypassRatios, pf \in {Dec(11, -1), Dec(15, -1)}, m0 \in {Zero, Dec(85, -2)}}

InitFuel ==
  /\ globals = EngineConstants
  /\ params \in FuelInputs
  /\ pi_hpc_list \in [1..1 -> HpcRatios]
  /\ calls = << >>
  /\ heap = << >>
  /\ results = 0
  /\ it = 0
  /\ loc = NoLocals
  /\ pc = "fuel"

(* lines 63-86 for the script's inputs *)
FuelPass ==
  /\ pc = "fuel"
  /\ loc = NoLocals
  /\ loc' = FuelStations(globals, params, pi_hpc_list[1]) @@ NoLocals
  /\ UNCHANGED <<globals, params, pi_hpc_list, calls, heap, results, it, pc>>

(* lines 63-86 again, with a higher Tt4 *)
Reheat ==
  /\ pc = "fuel"
  /\ loc # NoLocals
  /\ \E t \in FuelTemps :
       /\ Lt(params.Tt4, t)
       /\ params' = [params EXCEPT !.Tt4 = t]
  /\ loc' = FuelStations(globals, params', pi_hpc_list[1]) @@ NoLocals
  /\ UNCHANGED <<globals, pi_hpc_list, calls, heap, results, it, pc>>

NextFuel == FuelPass \/ Reheat

SpecFuel == InitFuel /\ [][NextFuel]_vars

----------------------------------------------------------------------------
(* Properties *)

(* the local whose value each result list collects *)
LocalOf ==
  [T_list |-> "T", T_fp_list |-> "T_fp", T_fs_list |-> "T_fs", ST_list |-> "ST",
   TSFC_list |-> "TSFC", Wprop_list |-> "Wprop", Wcin_list |-> "Wcin",
   Wth_list |-> "Wth", nprop_list |-> "nprop", nth_list |-> "nth",
   nglob_list |-> "nglob", A1_list |-> "A1", A2_list |-> "A2", A8_list |-> "A8",
   A18_list |-> "A18"]

(* |x - y| <= tol * |y| for finite x, y *)
Close(x, y, tol) ==
  /\ IsFinite(x)
  /\ IsFinite(y)
  /\ ~Lt(Mul(FAbs(y), tol), FAbs(Sub(x, y)))

(* a pass of the loop has just completed in the running call *)
AfterPass == pc = "loop" /\ it > 0

(* the sweeps whose values exist: the finished calls, and the running call *)
(* with the it points it has computed                                      *)
Sweeps ==
  {[list |-> calls[n].list, ret |-> calls[n].ret, n |-> Len(calls[n].list)] :
     n \in 1..Len(calls)}
  \cup (IF pc = "loop" THEN {[list |-> pi_hpc_list, ret |-> results, n |-> it]} ELSE {})

(* C1: a call that returns leaves N entries in each of the fifteen lists   *)
(* for a list of N ratios; after k passes of the loop every list has k     *)
(* entries; each pass appends, to every list, the value it computed for    *)
(* the ratio at that index and leaves the earlier entries alone; a call    *)
(* with an empty list returns fifteen empty lists and does not raise.      *)
C1_Lengths ==
  /\ pc = "loop" => \A key \in ResultKeys : Len(heap[results][key]) = it
  /\ \A n \in 1..Len(calls) :
       \A key \in ResultKeys : Len(heap[calls[n].ret][key]) = Len(calls[n].list)
  /\ pc = "raised" => Len(pi_hpc_list) > 0

C1_PassAppends ==
  (pc = "loop" /\ pc' = "loop") =>
     /\ it' = it + 1
     /\ loc'.pi_hpc = pi_hpc_list[it']
     /\ \A key \in ResultKeys :
          heap'[results][key] = Append(heap[results][key], loc'[LocalOf[key]])

C1_ResultLengths == [][C1_PassAppends /\ C1_Lengths']_vars

C1_Witness ==
  /\ Len(calls) = 2
  /\ calls[1].list = << >>
  /\ Len(calls[2].list) = 2
  /\ calls[2].list[1] # calls[2].list[2]

(* C2: the values of a sweep point depend only on the scalar inputs and on *)
(* its ratio: any two points with the same ratio, at whatever positions of *)
(* whatever lists, after whatever other ratios, have the same values.      *)
C2_PointIndependence ==
  \A a \in Sweeps, b \in Sweeps :
    \A i \in 1..a.n, j \in 1..b.n :
      a.list[i] = b.list[j] =>
        \A key \in ResultKeys : heap[a.ret][key][i] = heap[b.ret][key][j]

(* the same ratio second in a finished sweep, after a different ratio, and *)
(* first in the running sweep, where its pass has just completed with an   *)
(* unchoked primary nozzle                                                 *)
C2_Witness ==
  /\ Len(calls) = 1
  /\ Len(calls[1].list) = 2
  /\ calls[1].list[1] # calls[1].list[2]
  /\ AfterPass
  /\ it = 1
  /\ pi_hpc_list[1] = calls[1].list[2]
  /\ Lt(loc.M8_ad, One)
  /\ IsFinite(loc.T)

(* the adiabatic Mach number as the specification writes it:               *)
(* sqrt((2 / (gamma - 1)) * ((Pt / Ps0)^((gamma - 1) / gamma) - 1)),       *)
(* nan when the radicand is negative                                       *)
StatedAdiabaticMach(g, Pt, Ps0) ==
  SqrtNp(Mul(DivPy(Two, Sub(g.gamma, One)),
             Sub(PowPy(DivPy(Pt, Ps0), ExpTemp(g)), One)))

StatedChoked(M) == M.k = "nan" \/ (IsFinite(M) /\ ~Lt(M, One))

StatedMach8 == StatedAdiabaticMach(globals, loc.Pt8, params.Ps0)
StatedMach18 == StatedAdiabaticMach(globals, loc.Pt18, params.Ps0)

RelTol == Dec(1, -6)

(* C3: whenever the stated adiabatic Mach number of a nozzle is >= 1 or    *)
(* imaginary, the pass uses Mach 1 exactly for that nozzle and the exit    *)
(* velocity sqrt(gamma * R * Tt).                                          *)
C3_ChokedIsSonic ==
  AfterPass =>
    /\ StatedChoked(StatedMach8) => (loc.M8 = One /\ loc.V8 = loc.a8)
    /\ StatedChoked(StatedMach18) => (loc.M18 = One /\ loc.V18 = loc.a18)

(* C10: whenever the stated adiabatic Mach number of a nozzle is < 1, the  *)
(* pass uses it as the nozzle's Mach number, and Mach * sqrt(gamma*R*Tt)   *)
(* as the exit velocity.                                                   *)
C10_UnchokedUsesAdiabatic ==
  AfterPass =>
    /\ Lt(StatedMach8, One) =>
         /\ Close(loc.M8, StatedMach8, RelTol)
         /\ Close(loc.V8, Mul(StatedMach8, loc.a8), RelTol)
    /\ Lt(StatedMach18, One) =>
         /\ Close(loc.M18, StatedMach18, RelTol)
         /\ Close(loc.V18, Mul(StatedMach18, loc.a18), RelTol)

(* C4: a pass with Tt4 below the Tt3 it computed does not complete with    *)
(* an ordinary finite fuel flow and fifteen finite values.                 *)
C4_LowTt4Flagged ==
  (AfterPass /\ Lt(params.Tt4, loc.Tt3)) =>
     \/ ~IsFinite(loc.dm_f)
     \/ \E key \in ResultKeys : ~IsFinite(heap[results][key][it])

C6_EfficiencyIdentity ==
  AfterPass =>
    \A i \in 1..it :
      (/\ IsFinite(heap[results].nprop_list[i])
       /\ IsFinite(heap[results].nth_list[i])
       /\ IsFinite(heap[results].nglob_list[i])
       /\ ~IsZero(heap[results].Wcin_list[i])
       /\ ~IsZero(heap[results].Wth_list[i]))
      => Close(heap[results].nglob_list[i],
               Mul(heap[results].nprop_list[i], heap[results].nth_list[i]), RelTol)

C6_Witness ==
  /\ AfterPass
  /\ it = 2
  /\ \A i \in 1..2 : IsFinite(heap[results].nglob_list[i]) /\ ~IsZero(heap[results].nglob_list[i])
  /\ heap[results].nglob_list[1] # heap[results].nglob_list[2]

(* the reference inputs of main.py, evaluated at pi_hpc = 1.0 *)
ReferencePass == AfterPass /\ params = MainInput /\ loc.pi_hpc = One

(* C7 as stated: the reference pass gives Tt2 ~ 292.89 K, Pt2 ~ 139586 Pa *)
C7_ReferenceInlet_Stated ==
  ReferencePass =>
    /\ Close(loc.Tt2, Dec(29289, -2), Dec(1, -3))
    /\ Close(loc.Pt2, Dec(139586, 0), Dec(1, -3))

(* C7, amended: the reference pass gives Tt2 ~ 321.20 K and                *)
(* Pt2 ~ 144145 Pa, the values of the two inlet relations.                 *)
C7_ReferenceInlet ==
  ReferencePass =>
    /\ Close(loc.Tt2, Dec(32120, -2), Dec(1, -4))
    /\ Close(loc.Pt2, Dec(144145, 0), Dec(1, -4))

C7_Witness == ReferencePass

(* C8: with the ratio and every other input fixed, a higher Tt4 below PCI  *)
(* leaves Tt3 unchanged and gives a strictly higher fuel-air ratio f.      *)
C8_Reheated ==
  (loc # NoLocals /\ loc' # NoLocals /\ Lt(params.Tt4, params'.Tt4)
     /\ Lt(params'.Tt4, globals.PCI)) =>
       /\ loc'.Tt3 = loc.Tt3
       /\ IsFinite(loc.f)
       /\ IsFinite(loc'.f)
       /\ Lt(loc.f, loc'.f)

C8_FuelAirMonotone == [][C8_Reheated]_vars

(* reheated past Tt3 and up to the highest temperature below PCI *)
C8_Witness ==
  /\ pc = "fuel"
  /\ params.Tt4 = Dec(4, 7)
  /\ loc # NoLocals
  /\ Lt(Zero, loc.f)

(* C9: a step of a call changes neither the module constants nor the list  *)
(* passed, nor any dictionary an earlier call returned; the dictionary of  *)
(* a call is a new, empty one; calls with equal arguments have returned    *)
(* equal results.                                                          *)
C9_Step ==
  /\ globals = EngineConstants
  /\ globals' = globals
  /\ pc = "loop" => pi_hpc_list' = pi_hpc_list
  /\ \A n \in 1..Len(calls) :
       /\ calls'[n] = calls[n]
       /\ heap'[calls[n].ret] = heap[calls[n].ret]
  /\ (pc = "idle" /\ pc' = "loop") =>
       /\ results' \notin DOMAIN heap
       /\ heap'[results'] = EmptyResults
  /\ \A m \in 1..Len(calls'), n \in 1..Len(calls') :
       calls'[m].list = calls'[n].list =>
         heap'[calls'[m].ret] = heap'[calls'[n].ret]

C9_Pure == [][C9_Step]_vars

C9_Witness ==
  /\ Len(calls) = 2
  /\ calls[1].list = calls[2].list
  /\ Len(calls[1].list) = 2
  /\ calls[1].ret # calls[2].ret

====
